---- MODULE Spec2Model ----
\* Model of the listing analysis route (POST /api/analyze): request validation,
\* the remote /infer call with its abort timer, and the local heuristic engine
\* generateMockAnalysis that is used when the remote call fails; and of the
\* client components ExplanationPanel, AnalyzePage and MonitorPage.
\*
\* Numbers are exact rationals [nan, n, d] in lowest terms; NaN is carried as a
\* value of its own with the comparison and arithmetic rules of the language
\* (every comparison with NaN is false, every sum with NaN is NaN).  Rounding of
\* binary floating point is not modelled.
\* Strings that are searched or lower-cased are sequences of one-character
\* strings; a JSON value is a record [k, s, n]: its kind, its characters (kind
\* "string"), and its number in hundredths (kind "number"), its truth value
\* (kind "boolean") or its length (kind "array").
EXTENDS Integers, Sequences, FiniteSets, TLC

VARIABLES data, first, latest, prev, now,
          pc, body, backend, timer, elapsed, fetches, mockRuns, resp,
          explanations, rendered,
          formData, loading, result, error, request,
          listings, connected, mounted, interval, nextId

vars == <<data, first, latest, prev, now,
          pc, body, backend, timer, elapsed, fetches, mockRuns, resp,
          explanations, rendered,
          formData, loading, result, error, request,
          listings, connected, mounted, interval, nextId>>

engineVars == <<data, first, latest, prev>>
routeVars == <<pc, body, backend, timer, elapsed, fetches, mockRuns, resp>>
\* The state of the three client components: ExplanationPanel (its prop and
\* what it has rendered), AnalyzePage and MonitorPage.
panelVars == <<explanations, rendered>>
analyzeVars == <<formData, loading, result, error, request>>
monitorVars == <<listings, connected, mounted, interval, nextId>>
pageVars == <<panelVars, analyzeVars, monitorVars>>

-----------------------------------------------------------------------------
\* Numbers

RECURSIVE Gcd(_, _)
Gcd(a, b) == IF b = 0 THEN a ELSE Gcd(b, a % b)

Abs(x) == IF x < 0 THEN -x ELSE x

NaN == [nan |-> TRUE, n |-> 0, d |-> 1]

\* The rational n/d (d > 0) in lowest terms.
R(n, d) ==
    LET g == Gcd(Abs(n), d)
    IN  [nan |-> FALSE, n |-> n \div g, d |-> d \div g]

RAdd(a, b) ==
    IF a.nan \/ b.nan THEN NaN
    ELSE LET g == Gcd(a.d, b.d)
         IN  R(a.n * (b.d \div g) + b.n * (a.d \div g), a.d * (b.d \div g))

RSub(a, b) == RAdd(a, [b EXCEPT !.n = -b.n])

RAbs(a) == [a EXCEPT !.n = Abs(a.n)]

RMul(a, b) ==
    IF a.nan \/ b.nan THEN NaN
    ELSE LET g1 == Gcd(Abs(a.n), b.d)
             g2 == Gcd(Abs(b.n), a.d)
         IN  IF a.n = 0 \/ b.n = 0 THEN R(0, 1)
             ELSE R((a.n \div g1) * (b.n \div g2), (a.d \div g2) * (b.d \div g1))

\* a / b for b > 0 (a median of the price table is never zero or negative).
RDiv(a, b) ==
    IF a.nan \/ b.nan THEN NaN
    ELSE RMul(a, [nan |-> FALSE, n |-> b.d, d |-> b.n])

\* a/b <= c/d for a, c >= 0 and b, d > 0, by comparing integer parts and then
\* the reciprocals of the fractional parts (no cross product is formed).
RECURSIVE FracLeq(_, _, _, _)
FracLeq(a, b, c, d) ==
    LET qa == a \div b
        qc == c \div d
        ra == a % b
        rc == c % d
    IN  IF qa # qc THEN qa < qc
        ELSE IF ra = 0 THEN TRUE
        ELSE IF rc = 0 THEN FALSE
        ELSE FracLeq(d, rc, b, ra)

\* a <= b; false when either side is NaN.
RLeq(a, b) ==
    IF a.nan \/ b.nan THEN FALSE
    ELSE IF a.n < 0 THEN (IF b.n >= 0 THEN TRUE ELSE FracLeq(-b.n, b.d, -a.n, a.d))
    ELSE IF b.n < 0 THEN FALSE
    ELSE FracLeq(a.n, a.d, b.n, b.d)

\* a < b; false when either side is NaN.
RLt(a, b) == ~a.nan /\ ~b.nan /\ ~RLeq(b, a)

\* Math.min of two numbers: NaN if either is NaN.
RMin(a, b) ==
    IF a.nan \/ b.nan THEN NaN ELSE IF RLeq(a, b) THEN a ELSE b

-----------------------------------------------------------------------------
\* JSON values

JsUndefined == [k |-> "undefined", s |-> <<>>, n |-> 0]
JsNull == [k |-> "null", s |-> <<>>, n |-> 0]
JsStr(s) == [k |-> "string", s |-> s, n |-> 0]
JsNum(hundredths) == [k |-> "number", s |-> <<>>, n |-> hundredths]
JsBool(b) == [k |-> "boolean", s |-> <<>>, n |-> IF b THEN 1 ELSE 0]
JsArr(len) == [k |-> "array", s |-> <<>>, n |-> len]

\* ToBoolean: undefined, null, "", 0 and false are falsy.
Truthy(v) ==
    CASE v.k = "undefined" -> FALSE
      [] v.k = "null" -> FALSE
      [] v.k = "string" -> v.s # <<>>
      [] v.k = "number" -> v.n # 0
      [] v.k = "boolean" -> v.n = 1
      [] OTHER -> TRUE

Digits == <<"0", "1", "2", "3", "4", "5", "6", "7", "8", "9">>

DigitValue(ch) == (CHOOSE i \in 1..10 : Digits[i] = ch) - 1

IsDigit(ch) == \E i \in 1..10 : Digits[i] = ch

RECURSIVE DecimalValue(_)
DecimalValue(s) ==
    IF s = <<>> THEN 0
    ELSE 10 * DecimalValue(SubSeq(s, 1, Len(s) - 1)) + DigitValue(s[Len(s)])

\* ToNumber of a string made of decimal digits, of the empty string, or of
\* anything else (NaN).
StringToNumber(s) ==
    IF \A i \in 1..Len(s) : IsDigit(s[i]) THEN R(DecimalValue(s), 1) ELSE NaN

\* ToNumber, as the relational operators apply it to an operand compared with
\* a number.
ToNumber(v) ==
    CASE v.k = "number" -> R(v.n, 100)
      [] v.k = "string" -> StringToNumber(v.s)
      [] v.k = "null" -> R(0, 1)
      [] v.k = "boolean" -> R(v.n, 1)
      [] v.k = "array" -> IF v.n = 0 THEN R(0, 1) ELSE NaN
      [] OTHER -> NaN

-----------------------------------------------------------------------------
\* Strings

Upper == <<"A", "B", "C", "D", "E", "F", "G", "H", "I", "J", "K", "L", "M",
           "N", "O", "P", "Q", "R", "S", "T", "U", "V", "W", "X", "Y", "Z">>
Lower == <<"a", "b", "c", "d", "e", "f", "g", "h", "i", "j", "k", "l", "m",
           "n", "o", "p", "q", "r", "s", "t", "u", "v", "w", "x", "y", "z">>

LowerMap ==
    [ch \in {Upper[i] : i \in 1..26} |-> Lower[CHOOSE i \in 1..26 : Upper[i] = ch]]

LowerChar(ch) == IF ch \in DOMAIN LowerMap THEN LowerMap[ch] ELSE ch

\* A search that does not fold the case.
keepCase(s) == s

\* String.prototype.toLowerCase
toLowerCase(s) == [i \in 1..Len(s) |-> LowerChar(s[i])]

\* String.prototype.includes: w occurs in s as a contiguous substring.
includes(s, w) ==
    \E i \in 0..(Len(s) - Len(w)) : \A j \in 1..Len(w) : s[i + j] = w[j]

-----------------------------------------------------------------------------
\* The heuristic engine, generateMockAnalysis

W_free == <<"f","r","e","e">>
W_wow == <<"w","o","w">>
W_amazing == <<"a","m","a","z","i","n","g">>
W_limited == <<"l","i","m","i","t","e","d">>
W_urgent == <<"u","r","g","e","n","t">>
W_exclusive == <<"e","x","c","l","u","s","i","v","e">>
W_fake == <<"f","a","k","e">>
W_replica == <<"r","e","p","l","i","c","a">>

suspiciousWords ==
    <<W_free, W_wow, W_amazing, W_limited, W_urgent, W_exclusive, W_fake, W_replica>>

genericNames ==
    << <<"s","e","l","l","e","r">>, <<"s","h","o","p">>,
       <<"s","t","o","r","e">>, <<"m","a","l","l">> >>

\* (v || "").toLowerCase(): a falsy value gives "", a string its lower-cased
\* self; any other truthy value has no toLowerCase and the call throws.
LowerOrEmptyThrows(v) == Truthy(v) /\ v.k # "string"

LowerOrEmpty(v) == IF Truthy(v) THEN toLowerCase(v.s) ELSE <<>>

\* A count of the occurrences of the words, a word that repeats counted each
\* time.
wordOccurrences(title) ==
    Cardinality({ip \in (1..Len(suspiciousWords)) \X (0..Len(title)) :
                    /\ ip[2] + Len(suspiciousWords[ip[1]]) <= Len(title)
                    /\ \A j \in 1..Len(suspiciousWords[ip[1]]) :
                          title[ip[2] + j] = suspiciousWords[ip[1]][j]})

\* suspiciousWords.filter((w) => title.includes(w)).length, for the
\* lower-cased title.
wordMatches(title) ==
    Cardinality({i \in 1..Len(suspiciousWords) : includes(title, suspiciousWords[i])})

\* Names that every object literal inherits from Object.prototype: a lookup of
\* one of them in categoryRanges finds the inherited member, not undefined.
PrototypeKeys ==
    {"constructor", "toString", "valueOf", "hasOwnProperty", "__proto__"}

\* categoryRanges[data.category] || [1, 10000], as the pair range[0], range[1];
\* an inherited member is truthy and has neither element (both undefined).
categoryRange(key) ==
    CASE key = "electronics" -> <<R(200, 1), R(2000, 1)>>
      [] key = "clothing" -> <<R(10, 1), R(200, 1)>>
      [] key = "jewelry" -> <<R(50, 1), R(5000, 1)>>
      [] key = "watches" -> <<R(100, 1), R(10000, 1)>>
      [] key = "books" -> <<R(5, 1), R(50, 1)>>
      [] key \in PrototypeKeys -> <<NaN, NaN>>
      [] OTHER -> <<R(1, 1), R(10000, 1)>>

\* The lower end of the range in place of its middle.
lowerBound(range) == range[1]

\* (range[0] + range[1]) / 2
medianPrice(range) == RDiv(RAdd(range[1], range[2]), R(2, 1))

\* Math.abs(data.price - medianPrice) / medianPrice
priceDeviation(price, median) ==
    RDiv(RAbs(RSub(ToNumber(price), median)), median)

\* data.rating >= 4.9 && data.review_count < 10
perfectRatingLowReviews(d) ==
    /\ RLeq(R(49, 10), ToNumber(d.rating))
    /\ RLt(ToNumber(d.review_count), R(10, 1))

\* A test for a negative count in place of the test for zero.
zeroReviewsNegative(d) == d.review_count.k = "number" /\ d.review_count.n < 0

\* data.review_count === 0
zeroReviews(d) == d.review_count.k = "number" /\ d.review_count.n = 0

\* genericNames.some((n) => seller.includes(n)), for the lower-cased seller.
genericSeller(seller) ==
    \E i \in 1..Len(genericNames) : includes(seller, genericNames[i])

\* A count that takes the length of anything truthy: the length of a string,
\* undefined (here -1, not equal to 0) for a number or a boolean.
imageCountAnyLength(d) ==
    IF ~Truthy(d.images) THEN 0
    ELSE IF d.images.k = "array" THEN d.images.n
    ELSE IF d.images.k = "string" THEN Len(d.images.s)
    ELSE -1

\* data.images && Array.isArray(data.images) ? data.images.length : 0
imageCount(d) ==
    IF Truthy(d.images) /\ d.images.k = "array" THEN d.images.n ELSE 0

\* if (cond) { suspiciousness += amount }
addIf(sum, cond, amount) == IF cond THEN RAdd(sum, amount) ELSE sum

\* The running sum without the cap of the price anomaly.
suspiciousnessUncapped(wm, pd, prl, zr, gs, ic) ==
    addIf(addIf(addIf(addIf(
        RAdd(RMul(R(wm, 1), R(15, 100)), RMul(pd, R(2, 10))),
        prl, R(15, 100)),
        zr, R(1, 10)),
        gs, R(1, 10)),
        ic = 0, R(1, 10))

\* The running sum suspiciousness after the last += of the function: the
\* words, the price anomaly, the two rating conditions, the seller name and
\* the images, in this order.
suspiciousness(wm, pd, prl, zr, gs, ic) ==
    addIf(addIf(addIf(addIf(
        RAdd(RMul(R(wm, 1), R(15, 100)), RMin(RMul(pd, R(2, 10)), R(2, 10))),
        prl, R(15, 100)),
        zr, R(1, 10)),
        gs, R(1, 10)),
        ic = 0, R(1, 10))

\* A score that starts from the score of the call before (a running sum kept
\* across calls) instead of from zero.
scoreOfCarried(susp) ==
    RMin(RAdd(susp, IF latest = <<>> THEN R(0, 1) ELSE latest[1].score), R(1, 1))

\* Math.min(suspiciousness, 1)
scoreOf(susp) == RMin(susp, R(1, 1))

\* The two upper labels exchanged.
labelOfSwapped(score) ==
    IF RLt(score, R(4, 10)) THEN "safe"
    ELSE IF RLt(score, R(7, 10)) THEN "high_risk"
    ELSE "suspicious"

labelOf(score) ==
    IF RLt(score, R(4, 10)) THEN "safe"
    ELSE IF RLt(score, R(7, 10)) THEN "suspicious"
    ELSE "high_risk"

\* The array literal of the return statement, before the filter.
explanationEntries(pd, wm, prl, ic, gs) ==
    << [feature |-> "price_deviation_from_median",
        contribution |-> RMin(RMul(pd, R(2, 10)), R(1, 1))],
       [feature |-> "suspicious_words_in_title",
        contribution |-> RMin(RMul(R(wm, 1), R(15, 100)), R(1, 1))],
       [feature |-> "perfect_rating_low_reviews",
        contribution |-> IF prl THEN R(15, 100) ELSE R(0, 1)],
       [feature |-> "no_images",
        contribution |-> IF ic = 0 THEN R(1, 10) ELSE R(0, 1)],
       [feature |-> "generic_seller_name",
        contribution |-> IF gs THEN R(1, 10) ELSE R(0, 1)] >>

\* A filter that keeps zero contributions (>= 0 for > 0).
keepEntryNonNegative(e) == RLeq(R(0, 1), e.contribution)

\* The test of the filter: e.contribution > 0.
keepEntry(e) == RLt(R(0, 1), e.contribution)

explanationOf(entries) == SelectSeq(entries, keepEntry)

\* new Date().toISOString(): the time of the call.
timestampOf == now

\* A result that carries the version tag of the remote model.
resultOfUntagged(score, explanation) ==
    [threw |-> FALSE, score |-> score, label |-> labelOf(score),
     explanation |-> explanation, model_version |-> "v0.1", timestamp |-> 0]

\* The object of the return statement, with the timestamp still to be set.
resultOf(score, explanation) ==
    [threw |-> FALSE, score |-> score, label |-> labelOf(score),
     explanation |-> explanation, model_version |-> "v0.1-mock", timestamp |-> 0]

\* The body of generateMockAnalysis from the values of its local constants
\* wordMatches, priceDeviation, imageCount and of its conditions.
analysisOf(wm, pd, prl, zr, gs, ic) ==
    resultOf(scoreOf(suspiciousness(wm, pd, prl, zr, gs, ic)),
             explanationOf(explanationEntries(pd, wm, prl, ic, gs)))

Thrown ==
    [threw |-> TRUE, score |-> NaN, label |-> "", explanation |-> <<>>,
     model_version |-> "", timestamp |-> 0]

\* What generateMockAnalysis computes from the listing alone: whether a
\* toLowerCase call throws and, if none does, every field of the result but
\* the timestamp.
scoring(d) ==
    IF LowerOrEmptyThrows(d.title) \/ LowerOrEmptyThrows(d.seller)
    THEN Thrown
    ELSE analysisOf(wordMatches(LowerOrEmpty(d.title)),
                    priceDeviation(d.price, medianPrice(categoryRange(d.category))),
                    perfectRatingLowReviews(d), zeroReviews(d),
                    genericSeller(LowerOrEmpty(d.seller)), imageCount(d))

\* timestamp: new Date().toISOString()
stamped(r) == IF r.threw THEN r ELSE [r EXCEPT !.timestamp = timestampOf]

\* The promise generateMockAnalysis returns: rejected when a toLowerCase call
\* throws, otherwise fulfilled with the result.
generateMockAnalysis(d) == stamped(scoring(d))

-----------------------------------------------------------------------------
\* Inputs of the heuristic engine

T_iPhone ==
    <<"i","P","h","o","n","e"," ","1","5"," ","P","r","o"," ","M","a","x">>
T_FreeFree ==
    <<"F","R","E","E"," ","f","r","e","e"," ","F","r","e","e","b","i","e">>
T_WowFake == <<"W","o","w",","," ","f","a","k","e">>
T_FourWords ==
    <<"A","m","a","z","i","n","g"," ","L","I","M","I","T","E","D"," ",
      "u","r","g","e","n","t"," ","r","e","p","l","i","c","a">>
T_AllWords ==
    <<"f","r","e","e"," ","w","o","w"," ","a","m","a","z","i","n","g"," ",
      "l","i","m","i","t","e","d"," ","u","r","g","e","n","t"," ",
      "e","x","c","l","u","s","i","v","e"," ","f","a","k","e"," ",
      "r","e","p","l","i","c","a">>
S_TechMart == <<"T","e","c","h","M","a","r","t">>
S_Shop == <<"S","h","o","p">>

Titles == {T_iPhone, T_FreeFree, T_WowFake, T_FourWords, T_AllWords}
\* Prices in hundredths: 1100.00 (the electronics median), 1199.99, 50000.00.
Prices == {110000, 119999, 5000000}
Sellers == {S_TechMart, S_Shop}
\* Ratings in hundredths: 4.8 and 5.0.
Ratings == {480, 500}
\* Review counts in hundredths: 0, 2 and 100.
ReviewCounts == {0, 200, 10000}
Categories == {"electronics", "toys", "constructor"}
ImageLists == {JsArr(0), JsArr(1)}

Listing(t, p, s, r, c, cat, im) ==
    [title |-> t, price |-> p, seller |-> s, rating |-> r, review_count |-> c,
     category |-> cat, images |-> im]

\* Single listings: the one of the API example, one with an upper-case
\* vocabulary term, one far above its category's range, and a default one.
T_SuperDeal ==
    <<"S","U","P","E","R"," ","D","E","A","L","!","!","!"," ",
      "E","X","C","L","U","S","I","V","E","!","!","!">>
T_GenericWidget ==
    <<"G","e","n","e","r","i","c"," ","W","i","d","g","e","t">>
T_Item == <<"I","t","e","m">>
S_SuperSeller123 ==
    <<"S","u","p","e","r","S","e","l","l","e","r","1","2","3">>
S_Acme == <<"A","c","m","e">>

Scenario1 ==
    Listing(JsStr(T_iPhone), JsNum(119999), JsStr(S_TechMart), JsNum(480),
            JsNum(523400), "electronics", JsArr(1))

Scenario2 ==
    Listing(JsStr(T_SuperDeal), JsNum(19999), JsStr(S_SuperSeller123), JsNum(500),
            JsNum(200), "electronics", JsArr(0))

Scenario3 ==
    Listing(JsStr(T_GenericWidget), JsNum(5000000), JsStr(S_Shop), JsNum(400),
            JsNum(10000), "clothing", JsArr(2))

\* Prices of the default listing, in hundredths: 0, 1.00 and 5000.50 (the
\* median of the default range).
Scenario4Prices == {0, 100, 500050}

\* A listing with nothing but the required fields: rating 0, no review, no
\* image, a category that is not in the table.
Scenario4(p) ==
    Listing(JsStr(T_Item), JsNum(p), JsStr(S_Acme), JsNum(0), JsNum(0),
            "unknown", JsArr(0))

ScenarioListings ==
    {Scenario1, Scenario2, Scenario3} \cup {Scenario4(p) : p \in Scenario4Prices}

\* Values of the optional field images: absent, null, a string, a number, a
\* boolean, and arrays of 0, 1 and 2 elements.
ImageValues ==
    {JsUndefined, JsNull, JsStr(<<"x",".","j","p","g">>), JsNum(100), JsBool(TRUE),
     JsArr(0), JsArr(1), JsArr(2)}

\* A listing in which nothing but the images can add to the score.
ImageListing(im) ==
    Listing(JsStr(T_iPhone), JsNum(110000), JsStr(S_TechMart), JsNum(480),
            JsNum(10000), "electronics", im)

ImageListings == {ImageListing(im) : im \in ImageValues}

Listings ==
    {Listing(JsStr(t), JsNum(p), JsStr(s), JsNum(r), JsNum(c), cat, im) :
        t \in Titles, p \in Prices, s \in Sellers, r \in Ratings,
        c \in ReviewCounts, cat \in Categories, im \in ImageLists}
    \cup ScenarioListings \cup ImageListings

\* Listings analysed between two analyses of the listing under study: one per
\* score band, the two band edges 0.4 and 0.7, the clamped score 1 and NaN.
OtherListings ==
    {Listing(JsStr(T_iPhone), JsNum(110000), JsStr(S_TechMart), JsNum(480),
             JsNum(10000), "electronics", JsArr(1)),
     Listing(JsStr(T_WowFake), JsNum(110000), JsStr(S_TechMart), JsNum(480),
             JsNum(10000), "electronics", JsArr(0)),
     Listing(JsStr(T_WowFake), JsNum(119999), JsStr(S_Shop), JsNum(480),
             JsNum(10000), "electronics", JsArr(0)),
     Listing(JsStr(T_FourWords), JsNum(110000), JsStr(S_TechMart), JsNum(480),
             JsNum(10000), "electronics", JsArr(0)),
     Listing(JsStr(T_AllWords), JsNum(5000000), JsStr(S_Shop), JsNum(500),
             JsNum(0), "toys", JsArr(0)),
     Listing(JsStr(T_iPhone), JsNum(119999), JsStr(S_TechMart), JsNum(480),
             JsNum(10000), "constructor", JsArr(1))}

MaxClock == 1

-----------------------------------------------------------------------------
\* The engine on its own: one listing analysed repeatedly, other listings
\* analysed in between, the clock advancing.

\* The requests the route can be serving.
Reqs == {1, 2}

\* A request body as request.json() yields it: "unparsable" (json() throws),
\* "null", "scalar" (a number, string, boolean or array: every field read of
\* the validation is undefined) or "object" with the fields below.
Body(kind, t, p, s, r, c, cat, im) ==
    [kind |-> kind, title |-> t, price |-> p, seller |-> s, rating |-> r,
     review_count |-> c, category |-> cat, images |-> im]

NoFields(kind) ==
    Body(kind, JsUndefined, JsUndefined, JsUndefined, JsUndefined, JsUndefined,
         "undefined", JsUndefined)

NoResult == [Thrown EXCEPT !.threw = FALSE]

NoResponse == [status |-> 0, source |-> "none", json |-> "none", result |-> NoResult]

\* The route's variables, at rest.
RouteIdle ==
    /\ pc = [r \in Reqs |-> "idle"]
    /\ body = [r \in Reqs |-> NoFields("none")]
    /\ backend = [r \in Reqs |-> "none"]
    /\ timer = [r \in Reqs |-> "unset"]
    /\ elapsed = [r \in Reqs |-> 0]
    /\ fetches = [r \in Reqs |-> 0]
    /\ mockRuns = [r \in Reqs |-> 0]
    /\ resp = [r \in Reqs |-> NoResponse]

\* What ExplanationPanel has rendered: nothing yet, the line "No significant
\* factors detected", or one row per explanation.
NotRendered == [shown |-> FALSE, none |-> FALSE, rows |-> <<>>]

\* The form of AnalyzePage as useState initialises it (the fields that are
\* converted on submission).
EmptyForm == [price |-> <<>>, rating |-> <<>>, review_count |-> <<>>, images |-> <<>>]

NoPayload == [price |-> NaN, rating |-> NaN, review_count |-> NaN, images |-> 0]

\* The client components, not mounted.
PanelIdle == explanations = <<>> /\ rendered = NotRendered

AnalyzeIdle ==
    /\ formData = EmptyForm
    /\ loading = FALSE
    /\ result = JsNull
    /\ error = JsNull
    /\ request = [state |-> "none", payload |-> NoPayload]

MonitorIdle ==
    /\ listings = <<>>
    /\ connected = FALSE
    /\ mounted = FALSE
    /\ interval = "none"
    /\ nextId = 1

InitEngine ==
    /\ data \in Listings
    /\ first = <<>>
    /\ latest = <<>>
    /\ prev = <<>>
    /\ now = 0
    /\ RouteIdle
    /\ PanelIdle /\ AnalyzeIdle /\ MonitorIdle

\* One call of generateMockAnalysis on the listing under study; time may pass
\* before the next call.
Analyze ==
    /\ latest' = <<generateMockAnalysis(data)>>
    /\ first' = IF first = <<>> THEN latest' ELSE first
    /\ \E dt \in 0..1 : now + dt <= MaxClock /\ now' = now + dt
    /\ UNCHANGED <<data, prev, routeVars, pageVars>>

\* The scores and labels generateMockAnalysis returns for the other listings.
summaryOf(r) == [score |-> r.score, label |-> r.label]

otherAnalyses == [d \in OtherListings |-> summaryOf(scoring(d))]

\* One call of generateMockAnalysis on another listing.
AnalyzeOther ==
    /\ \E d \in OtherListings : prev' = <<otherAnalyses[d]>>
    /\ UNCHANGED <<data, first, latest, now, routeVars, pageVars>>

NextEngine == Analyze \/ AnalyzeOther

SpecEngine == InitEngine /\ [][NextEngine]_vars

-----------------------------------------------------------------------------
\* The route: POST and callMLService

\* Bodies sent to the route.  Numbers are in hundredths: the title 123, the
\* price 1100.00, the seller 7, the rating 5.0.
RouteTitles == {JsUndefined, JsStr(<<>>), JsStr(T_iPhone), JsNum(12300)}
RoutePrices == {JsUndefined, JsNum(110000), JsStr(<<"1","2">>)}
RouteSellers == {JsUndefined, JsStr(S_Shop), JsNum(700)}
RouteRatings == {JsUndefined, JsNull, JsNum(500), JsStr(<<"5">>)}
RouteReviewCounts == {JsUndefined, JsNum(0), JsStr(<<"3">>)}
RouteCategories == {"electronics", "constructor"}
RouteImages == {JsUndefined, JsArr(1)}

Bodies ==
    {NoFields("unparsable"), NoFields("null"), NoFields("scalar")} \cup
    {Body("object", t, p, s, r, c, cat, im) :
        t \in RouteTitles, p \in RoutePrices, s \in RouteSellers,
        r \in RouteRatings, c \in RouteReviewCounts, cat \in RouteCategories,
        im \in RouteImages}

\* The abort timer of callMLService, in seconds.
TimeoutSec == 5
\* Time is followed up to this many seconds after the remote call started.
MaxElapsed == 7

\* A validation that forgets review_count.
requiredFieldsMissingNoReviewCount(b) ==
    \/ ~Truthy(b.title)
    \/ b.price.k # "number"
    \/ ~Truthy(b.seller)
    \/ b.rating.k = "undefined"

\* The condition of the if statement that validates the required fields.
requiredFieldsMissing(b) ==
    \/ ~Truthy(b.title)
    \/ b.price.k # "number"
    \/ ~Truthy(b.seller)
    \/ b.rating.k = "undefined"
    \/ b.review_count.k = "undefined"

ErrorResponse(status) ==
    [status |-> status, source |-> "none", json |-> "error", result |-> NoResult]

\* return generateMockAnalysis(data), as the caller of POST sees it: the
\* result with status 200, or the 500 of POST's catch when the promise rejects.
mockResponse(m) ==
    IF m.threw THEN ErrorResponse(500)
    ELSE [status |-> 200, source |-> "mock", json |-> "analysis", result |-> m]

fallbackResponse(b) == mockResponse(generateMockAnalysis(b))

\* What a 2xx reply of the backend may hold once parsed: an analysis, or any
\* other JSON value.
RemoteJson == {"analysis", "other"}

remoteResponse(json) ==
    [status |-> 200, source |-> "remote", json |-> json,
     result |-> [threw |-> FALSE, score |-> IF json = "analysis" THEN R(9, 10) ELSE NaN,
                 label |-> IF json = "analysis" THEN "high_risk" ELSE "",
                 explanation |-> <<>>,
                 model_version |-> IF json = "analysis" THEN "remote" ELSE "",
                 timestamp |-> 0]]

\* A request with one of the given bodies arrives: POST is called and awaits
\* request.json().
ReceiveFrom(r, bodies) ==
    /\ pc[r] = "idle"
    /\ \E b \in bodies : body' = [body EXCEPT ![r] = b]
    /\ pc' = [pc EXCEPT ![r] = "parse"]
    /\ UNCHANGED <<backend, timer, elapsed, fetches, mockRuns, resp, engineVars, now, pageVars>>

Receive(r) == ReceiveFrom(r, Bodies)

\* POST from the result of request.json() to its first await: the body that
\* does not parse and the null body end in the catch (500), a failed
\* validation in the 400, and any other body starts callMLService, which arms
\* the timer and issues the fetch.
PostStart(r) ==
    /\ pc[r] = "parse"
    /\ LET b == body[r]
       IN  IF b.kind \in {"unparsable", "null"}
           THEN /\ resp' = [resp EXCEPT ![r] = ErrorResponse(500)]
                /\ pc' = [pc EXCEPT ![r] = "done"]
                /\ UNCHANGED <<timer, fetches>>
           ELSE IF requiredFieldsMissing(b)
           THEN /\ resp' = [resp EXCEPT ![r] = ErrorResponse(400)]
                /\ pc' = [pc EXCEPT ![r] = "done"]
                /\ UNCHANGED <<timer, fetches>>
           ELSE /\ timer' = [timer EXCEPT ![r] = "armed"]
                /\ fetches' = [fetches EXCEPT ![r] = @ + 1]
                /\ pc' = [pc EXCEPT ![r] = "fetching"]
                /\ UNCHANGED resp
    /\ UNCHANGED <<body, backend, elapsed, mockRuns, engineVars, now, pageVars>>

\* A continuation that sends the request once more before it gives up.
FallbackRetry(r, cause) ==
    /\ backend' = [backend EXCEPT ![r] = cause]
    /\ IF fetches[r] < 2
       THEN /\ fetches' = [fetches EXCEPT ![r] = @ + 1]
            /\ pc' = [pc EXCEPT ![r] = "fetching"]
            /\ UNCHANGED <<mockRuns, resp>>
       ELSE /\ mockRuns' = [mockRuns EXCEPT ![r] = @ + 1]
            /\ resp' = [resp EXCEPT ![r] = fallbackResponse(body[r])]
            /\ pc' = [pc EXCEPT ![r] = "done"]
            /\ UNCHANGED fetches

\* The continuation that runs the local engine and returns from POST; no
\* further request is sent.
Fallback(r, cause) ==
    /\ backend' = [backend EXCEPT ![r] = cause]
    /\ mockRuns' = [mockRuns EXCEPT ![r] = @ + 1]
    /\ resp' = [resp EXCEPT ![r] = fallbackResponse(body[r])]
    /\ pc' = [pc EXCEPT ![r] = "done"]
    /\ UNCHANGED fetches

\* The fetch promise fulfils (the status line and headers have arrived): the
\* timer is cleared; a non-2xx status falls back, a 2xx status goes on to
\* await response.json().
FetchResponds(r) ==
    /\ pc[r] = "fetching"
    /\ timer' = [timer EXCEPT ![r] = "cleared"]
    /\ \E ok \in BOOLEAN :
          IF ok
          THEN /\ pc' = [pc EXCEPT ![r] = "reading"]
               /\ backend' = [backend EXCEPT ![r] = "2xx"]
               /\ UNCHANGED <<mockRuns, resp, fetches>>
          ELSE Fallback(r, "non2xx")
    /\ UNCHANGED <<body, elapsed, engineVars, now, pageVars>>

\* The fetch promise rejects with a transport failure: the catch block runs
\* the local engine; clearTimeout is not reached.
FetchFails(r) ==
    /\ pc[r] = "fetching"
    /\ Fallback(r, "failed")
    /\ UNCHANGED <<body, timer, elapsed, engineVars, now, pageVars>>

\* A timer whose callback aborts one controller shared by all invocations:
\* every fetch that is pending rejects.
TimerFiresShared(r) ==
    /\ timer[r] = "armed"
    /\ elapsed[r] >= TimeoutSec
    /\ timer' = [timer EXCEPT ![r] = "fired"]
    /\ backend' = [q \in Reqs |-> IF pc[q] = "fetching" THEN "aborted" ELSE backend[q]]
    /\ mockRuns' = [q \in Reqs |-> IF pc[q] = "fetching" THEN mockRuns[q] + 1 ELSE mockRuns[q]]
    /\ resp' = [q \in Reqs |->
                 IF pc[q] = "fetching" THEN fallbackResponse(body[q]) ELSE resp[q]]
    /\ pc' = [q \in Reqs |-> IF pc[q] = "fetching" THEN "done" ELSE pc[q]]
    /\ UNCHANGED <<body, elapsed, fetches, engineVars, now, pageVars>>

\* The timer callback runs controller.abort(): a fetch still pending rejects
\* and the catch block runs the local engine.
TimerFires(r) ==
    /\ timer[r] = "armed"
    /\ elapsed[r] >= TimeoutSec
    /\ timer' = [timer EXCEPT ![r] = "fired"]
    /\ IF pc[r] = "fetching"
       THEN Fallback(r, "aborted")
       ELSE UNCHANGED <<backend, mockRuns, resp, pc, fetches>>
    /\ UNCHANGED <<body, elapsed, engineVars, now, pageVars>>

\* response.json() fulfils: POST returns the parsed value with status 200.
BodyArrives(r) ==
    /\ pc[r] = "reading"
    /\ \E json \in RemoteJson : resp' = [resp EXCEPT ![r] = remoteResponse(json)]
    /\ backend' = [backend EXCEPT ![r] = "2xx_parsed"]
    /\ pc' = [pc EXCEPT ![r] = "done"]
    /\ UNCHANGED <<body, timer, elapsed, fetches, mockRuns, engineVars, now, pageVars>>

\* response.json() rejects (the body is not JSON, or the connection fails
\* while the body is read): the catch block runs the local engine.
BodyThrows(r) ==
    /\ pc[r] = "reading"
    /\ \E cause \in {"2xx_unparsable", "2xx_body_failed"} : Fallback(r, cause)
    /\ UNCHANGED <<body, timer, elapsed, engineVars, now, pageVars>>

\* The clock of request r runs while its remote call or its timer is pending.
ClockRuns(r) == pc[r] \in {"fetching", "reading"} \/ timer[r] = "armed"

\* One second passes.  A timer that is due fires before more time passes.
Tick ==
    /\ \A r \in Reqs : timer[r] = "armed" => elapsed[r] < TimeoutSec
    /\ \E r \in Reqs : ClockRuns(r) /\ elapsed[r] < MaxElapsed
    /\ elapsed' = [r \in Reqs |->
                     IF ClockRuns(r) /\ elapsed[r] < MaxElapsed
                     THEN elapsed[r] + 1 ELSE elapsed[r]]
    /\ UNCHANGED <<pc, body, backend, timer, fetches, mockRuns, resp, engineVars, now, pageVars>>

NoListing ==
    Listing(JsUndefined, JsUndefined, JsUndefined, JsUndefined, JsUndefined,
            "undefined", JsUndefined)

\* No engine call outside the route.
EngineIdle ==
    /\ data = NoListing
    /\ first = <<>>
    /\ latest = <<>>
    /\ prev = <<>>
    /\ now = 0

Init == EngineIdle /\ RouteIdle /\ PanelIdle /\ AnalyzeIdle /\ MonitorIdle

\* One request served.
Next ==
    \/ Receive(1)
    \/ PostStart(1)
    \/ FetchResponds(1)
    \/ FetchFails(1)
    \/ TimerFires(1)
    \/ BodyArrives(1)
    \/ BodyThrows(1)
    \/ Tick

Spec == Init /\ [][Next]_vars

\* Bodies of requests served at the same time: a listing the engine scores, a
\* numeric title, a missing review_count, and the body null.
ConcurrentBodies ==
    {Body("object", JsStr(T_iPhone), JsNum(110000), JsStr(S_Shop), JsNum(500),
          JsNum(0), "electronics", JsArr(1)),
     Body("object", JsNum(12300), JsNum(110000), JsStr(S_Shop), JsNum(500),
          JsNum(0), "electronics", JsArr(1)),
     Body("object", JsStr(T_iPhone), JsNum(110000), JsStr(S_Shop), JsNum(500),
          JsUndefined, "electronics", JsArr(1)),
     NoFields("null")}

\* Several requests served at the same time: the steps of the invocations of
\* POST interleave at their awaits, in any order.
NextConcurrent ==
    \/ \E r \in Reqs : ReceiveFrom(r, ConcurrentBodies)
    \/ \E r \in Reqs : PostStart(r)
    \/ \E r \in Reqs : FetchResponds(r)
    \/ \E r \in Reqs : FetchFails(r)
    \/ \E r \in Reqs : TimerFires(r)
    \/ \E r \in Reqs : BodyArrives(r)
    \/ \E r \in Reqs : BodyThrows(r)
    \/ Tick

SpecConcurrent == Init /\ [][NextConcurrent]_vars

-----------------------------------------------------------------------------
\* Properties of the heuristic engine (checked under SpecEngine)

Zero == R(0, 1)
One == R(1, 1)

Severity(label) ==
    CASE label = "safe" -> 0
      [] label = "suspicious" -> 1
      [] label = "high_risk" -> 2
      [] OTHER -> 3

\* C1: the score of every result the heuristic engine returns satisfies
\* 0 <= score <= 1.
C1_ScoreBounded ==
    \A i \in 1..Len(latest) :
        ~latest[i].threw =>
            RLeq(Zero, latest[i].score) /\ RLeq(latest[i].score, One)

\* C1 restricted to the categories that are not inherited member names: the
\* score is in [0, 1], also when the raw sum exceeds 1.
C1_ScoreBoundedOwnCategory ==
    \A i \in 1..Len(latest) :
        (~latest[i].threw /\ data.category \notin PrototypeKeys) =>
            RLeq(Zero, latest[i].score) /\ RLeq(latest[i].score, One)

\* C2: the label is safe iff score < 0.4, suspicious iff 0.4 <= score < 0.7,
\* and high_risk iff score >= 0.7.
C2_LabelFromThresholds ==
    \A i \in 1..Len(latest) :
        ~latest[i].threw =>
            /\ latest[i].label = "safe" <=> RLt(latest[i].score, R(4, 10))
            /\ latest[i].label = "suspicious" <=>
                  (RLeq(R(4, 10), latest[i].score) /\ RLt(latest[i].score, R(7, 10)))
            /\ latest[i].label = "high_risk" <=> RLeq(R(7, 10), latest[i].score)

\* C2 restricted to scores that are numbers (not NaN).
C2_LabelFromThresholdsNumber ==
    \A i \in 1..Len(latest) :
        (~latest[i].threw /\ ~latest[i].score.nan) =>
            /\ latest[i].label = "safe" <=> RLt(latest[i].score, R(4, 10))
            /\ latest[i].label = "suspicious" <=>
                  (RLeq(R(4, 10), latest[i].score) /\ RLt(latest[i].score, R(7, 10)))
            /\ latest[i].label = "high_risk" <=> RLeq(R(7, 10), latest[i].score)

C9_LabelMonotone ==
    (prev # <<>> /\ latest # <<>>) =>
        /\ RLeq(prev[1].score, latest[1].score) =>
              Severity(prev[1].label) <= Severity(latest[1].label)
        /\ RLeq(latest[1].score, prev[1].score) =>
              Severity(latest[1].label) <= Severity(prev[1].label)

\* C9 witness: two results with different scores on the two sides of a
\* threshold, the lower one exactly on the threshold 0.4.
C9_Witness ==
    /\ prev # <<>> /\ latest # <<>>
    /\ prev[1].score = R(4, 10)
    /\ RLt(prev[1].score, latest[1].score)
    /\ prev[1].label = "suspicious"
    /\ latest[1].label = "high_risk"

\* C10: every entry of the explanation has contribution > 0; no_images is
\* absent when the listing has images, the price deviation is absent when the
\* price equals the category median.
C10_ExplanationPositive ==
    \A i \in 1..Len(latest) :
        LET e == latest[i].explanation
        IN  /\ \A j \in 1..Len(e) : RLt(Zero, e[j].contribution)
            /\ imageCount(data) > 0 =>
                  \A j \in 1..Len(e) : e[j].feature # "no_images"
            /\ ToNumber(data.price) = medianPrice(categoryRange(data.category)) =>
                  \A j \in 1..Len(e) : e[j].feature # "price_deviation_from_median"

\* C10 witness: a listing for which no feature fires is answered with an
\* empty explanation, not an error.
C10_Witness ==
    /\ latest # <<>>
    /\ ~latest[1].threw
    /\ latest[1].explanation = <<>>
    /\ latest[1].score = Zero
    /\ imageCount(data) > 0
    /\ ToNumber(data.price) = medianPrice(categoryRange(data.category))

-----------------------------------------------------------------------------
\* Properties of the route (checked under Spec)

HeuristicTag == "v0.1-mock"

Labels == {"safe", "suspicious", "high_risk"}

\* A 200 response whose body is a result of the heuristic engine, tagged as
\* such, with one of the three labels.
HeuristicAnswer(response) ==
    /\ response.status = 200
    /\ response.source = "mock"
    /\ response.result.model_version = HeuristicTag
    /\ response.result.label \in Labels

\* C3: when the remote call ends in a timeout, a non-2xx response or a
\* transport failure and the listing passed validation, the caller receives
\* 200 with a heuristic result tagged "v0.1-mock", not an error.
C3_FallbackAnswers200 ==
    \A r \in Reqs :
        (pc[r] = "done" /\ backend[r] \in {"aborted", "non2xx", "failed"}) =>
            HeuristicAnswer(resp[r])

\* C4: an invocation that has started its remote call and has not returned
\* yet is not older than the timeout.
C4_ReturnsWithinTimeout ==
    \A r \in Reqs : pc[r] \in {"fetching", "reading"} => elapsed[r] <= TimeoutSec

\* The request is a JSON object whose required fields are present with the
\* types of the interface: title and seller non-empty strings, price, rating
\* and review_count numbers.
WellTypedRequest(b) ==
    /\ b.kind = "object"
    /\ b.title.k = "string" /\ b.title.s # <<>>
    /\ b.price.k = "number"
    /\ b.seller.k = "string" /\ b.seller.s # <<>>
    /\ b.rating.k = "number"
    /\ b.review_count.k = "number"

\* C5: a request whose body is malformed or has a required field missing or
\* of the wrong type is answered with 400.
C5_MalformedAnswers400 ==
    \A r \in Reqs :
        (pc[r] = "done" /\ ~WellTypedRequest(body[r])) => resp[r].status = 400

\* The required-field check as the interface states it: title and seller
\* present and not empty, price a number, rating and review_count defined.
FailsRequiredFieldCheck(b) ==
    \/ ~Truthy(b.title)
    \/ ~Truthy(b.seller)
    \/ b.price.k # "number"
    \/ b.rating = JsUndefined
    \/ b.review_count = JsUndefined

\* C6: when a 400 is returned neither the remote call nor the heuristic
\* engine has been started, and no remote call is issued for a request that
\* fails the required-field check.
C6_ValidationFirst ==
    \A r \in Reqs :
        /\ resp[r].status = 400 =>
              (fetches[r] = 0 /\ mockRuns[r] = 0 /\ timer[r] = "unset")
        /\ fetches[r] > 0 => ~FailsRequiredFieldCheck(body[r])

\* C6 witness: an object body with a missing review_count has been rejected
\* with 400.
C6_Witness ==
    \E r \in Reqs :
        /\ resp[r].status = 400
        /\ body[r].kind = "object"
        /\ Truthy(body[r].title) /\ Truthy(body[r].seller)
        /\ body[r].price.k = "number"
        /\ body[r].review_count = JsUndefined

\* C7: a request that passes the required-field check is answered with 200
\* and a body that carries a score.
C7_ValidRequestGetsScore ==
    \A r \in Reqs :
        (pc[r] = "done" /\ body[r].kind \in {"object", "scalar"}
            /\ ~requiredFieldsMissing(body[r])) =>
            (resp[r].status = 200 /\ resp[r].json = "analysis")

-----------------------------------------------------------------------------
\* Order and content of the explanation, the score formula (SpecEngine)

\* C11: the entries of the explanation are in descending order of
\* contribution: each contribution is >= the one after it.
C11_ExplanationDescending ==
    \A i \in 1..Len(latest) :
        LET e == latest[i].explanation
        IN  \A j \in 1..(Len(e) - 1) :
                RLeq(e[j + 1].contribution, e[j].contribution)

\* clamp(x, 0, 1)
Clamp01(x) ==
    IF RLt(x, Zero) THEN Zero ELSE IF RLt(One, x) THEN One ELSE x

\* The price table of the interface: five categories, and (1, 10000) for
\* every other category.
ReferenceMedian(cat) ==
    CASE cat = "electronics" -> R(1100, 1)
      [] cat = "clothing" -> R(105, 1)
      [] cat = "jewelry" -> R(2525, 1)
      [] cat = "watches" -> R(5050, 1)
      [] cat = "books" -> R(55, 2)
      [] OTHER -> R(10001, 2)

ReferenceTerms(d) ==
    Cardinality({w \in {suspiciousWords[i] : i \in 1..Len(suspiciousWords)} :
                    includes(toLowerCase(d.title.s), w)})

ReferencePrice(d) ==
    RMin(RMul(R(2, 10),
              RDiv(RAbs(RSub(R(d.price.n, 100), ReferenceMedian(d.category))),
                   ReferenceMedian(d.category))),
         R(2, 10))

ReferenceFlags(d) ==
    RAdd(RAdd(IF d.rating.n >= 490 /\ d.review_count.n < 1000 THEN R(15, 100) ELSE Zero,
              IF d.review_count.n = 0 THEN R(1, 10) ELSE Zero),
         RAdd(IF \E i \in 1..Len(genericNames) :
                     includes(toLowerCase(d.seller.s), genericNames[i])
              THEN R(1, 10) ELSE Zero,
              IF d.images.n = 0 THEN R(1, 10) ELSE Zero))

\* The reference formula clamp(S, 0, 1) for a listing whose fields are a
\* string title and seller, numbers and an array of images.
ReferenceScore(d) ==
    Clamp01(RAdd(RAdd(RMul(R(15, 100), R(ReferenceTerms(d), 1)), ReferencePrice(d)),
                 ReferenceFlags(d)))

\* C12: the score of the engine equals the reference formula clamp(S, 0, 1),
\* for every listing of the input sets.
C12_ScoreIsReference ==
    \A i \in 1..Len(latest) : latest[i].score = ReferenceScore(data)

\* C12 restricted to the categories that are not inherited member names.
C12_ScoreIsReferenceOwnCategory ==
    \A i \in 1..Len(latest) :
        data.category \notin PrototypeKeys => latest[i].score = ReferenceScore(data)

RECURSIVE SumOfContributions(_)
SumOfContributions(e) ==
    IF e = <<>> THEN Zero
    ELSE RAdd(e[1].contribution, SumOfContributions(Tail(e)))

\* C13: the score equals the sum of the contributions of the explanation,
\* clamped to [0, 1].
C13_ScoreIsSumOfExplanation ==
    \A i \in 1..Len(latest) :
        latest[i].score = Clamp01(SumOfContributions(latest[i].explanation))

\* C13 for the listings that have a review, a price inside the cap and a
\* category that is not an inherited member name.
C13_ScoreIsSumWithReviewsNearMedian ==
    \A i \in 1..Len(latest) :
        (/\ data.review_count.n # 0
         /\ data.category \notin PrototypeKeys
         /\ RLeq(priceDeviation(data.price, medianPrice(categoryRange(data.category))), One))
        => latest[i].score = Clamp01(SumOfContributions(latest[i].explanation))

-----------------------------------------------------------------------------
\* Single listings (SpecEngine)

Entry(feature, contribution) == [feature |-> feature, contribution |-> contribution]

C19_Scenario3NotSafe ==
    \A i \in 1..Len(latest) :
        data = Scenario3 =>
            /\ latest[i].score = RAdd(R(2, 10), R(1, 10))
            /\ latest[i].label # "safe"

\* C19, amended: the price adds its cap 0.2 to the score, the seller name
\* adds 0.1 and nothing else does, so the score is 0.3 and the label is safe.
C19_Scenario3Safe ==
    \A i \in 1..Len(latest) :
        data = Scenario3 =>
            /\ RLt(R(1, 1), priceDeviation(data.price, medianPrice(categoryRange(data.category))))
            /\ \E j \in 1..Len(latest[i].explanation) :
                  latest[i].explanation[j] = Entry("generic_seller_name", R(1, 10))
            /\ latest[i].score = R(3, 10)
            /\ latest[i].label = "safe"

C19_Witness ==
    /\ data = Scenario3
    /\ latest # <<>>
    /\ latest[1].score = R(3, 10)
    /\ latest[1].label = "safe"

-----------------------------------------------------------------------------
\* The remote call: attempts, timers, concurrent invocations

\* C14: an invocation sends at most one request to the backend; after a
\* timeout, a non-2xx response or a transport failure it has run the local
\* engine once and returned, without a second request.
C14_AtMostOneFetch ==
    \A r \in Reqs :
        /\ fetches[r] <= 1
        /\ backend[r] \in {"aborted", "non2xx", "failed"} =>
              (pc[r] = "done" /\ fetches[r] = 1 /\ mockRuns[r] = 1)

\* C14 witness: the remote call was aborted by the timeout and the invocation
\* has returned the engine's result.
C14_Witness ==
    \E r \in Reqs :
        /\ backend[r] = "aborted"
        /\ pc[r] = "done"
        /\ fetches[r] = 1
        /\ resp[r].source = "mock"

\* The responses POST can give for a body and an outcome of the remote call.
OwnResponses(b, outcome) ==
    CASE outcome = "none" ->
            IF b.kind \in {"unparsable", "null"}
            THEN {ErrorResponse(500)} ELSE {ErrorResponse(400)}
      [] outcome = "2xx_parsed" -> {remoteResponse(json) : json \in RemoteJson}
      [] OTHER -> {fallbackResponse(b)}

\* C15: with invocations interleaved in any order, the response of each is
\* one that its own body and the outcome of its own remote call determine, a
\* remote call is aborted only by the timer of its own invocation, not before
\* its own 5 seconds have passed, and an invocation that has not started is
\* untouched.
C15_Independent ==
    \A r \in Reqs :
        /\ pc[r] = "done" => resp[r] \in OwnResponses(body[r], backend[r])
        /\ backend[r] = "aborted" => (timer[r] = "fired" /\ elapsed[r] >= TimeoutSec)
        /\ pc[r] \in {"idle", "parse"} =>
              (resp[r] = NoResponse /\ timer[r] = "unset" /\ backend[r] = "none"
                  /\ fetches[r] = 0 /\ mockRuns[r] = 0)

\* C15 witness: the timer of one invocation has aborted its remote call while
\* the remote call of another, started later, is still pending.
C15_Witness ==
    \E r, q \in Reqs :
        /\ r # q
        /\ backend[r] = "aborted" /\ pc[r] = "done"
        /\ pc[q] = "fetching" /\ timer[q] = "armed"
        /\ 0 < elapsed[q] /\ elapsed[q] < TimeoutSec

\* C16: when an invocation has returned, its timer is not pending: it was
\* never set, has been cleared, or has fired.
C16_NothingOutlives ==
    \A r \in Reqs : pc[r] = "done" => timer[r] \in {"unset", "cleared", "fired"}

-----------------------------------------------------------------------------
\* The detectors one by one (SpecEngine)

TableKeys == {"electronics", "clothing", "jewelry", "watches", "books"}

\* C21: for every category that is not one of the five keys of the table the
\* median is that of the range (1, 10000), 5000.5, and the score is in [0, 1].
C21_FallbackRange ==
    \A i \in 1..Len(latest) :
        data.category \notin TableKeys =>
            /\ medianPrice(categoryRange(data.category)) = R(10001, 2)
            /\ RLeq(Zero, latest[i].score) /\ RLeq(latest[i].score, One)

\* C21 for the categories that are not inherited member names.
C21_FallbackRangeOwnCategory ==
    \A i \in 1..Len(latest) :
        (data.category \notin TableKeys /\ data.category \notin PrototypeKeys) =>
            /\ medianPrice(categoryRange(data.category)) = R(10001, 2)
            /\ RLeq(Zero, latest[i].score) /\ RLeq(latest[i].score, One)

\* The number of vocabulary terms in each title of the input sets, counted by
\* hand: "FREE free Freebie" holds one term, three times.
TermsIn(t) ==
    CASE t = T_FreeFree -> 1
      [] t = T_WowFake -> 2
      [] t = T_FourWords -> 4
      [] t = T_AllWords -> 8
      [] t = T_SuperDeal -> 1
      [] OTHER -> 0

\* C22: the count of the word detector is the number of vocabulary terms
\* present in the title, each once whatever its case and however often it
\* repeats, between 0 and 8, and the score is the sum of count * 0.15, without
\* a cap of its own, and the other signals, clamped at 1.
C22_TermsCountedOnce ==
    \A i \in 1..Len(latest) :
        /\ wordMatches(LowerOrEmpty(data.title)) = TermsIn(data.title.s)
        /\ wordMatches(LowerOrEmpty(data.title)) \in 0..8
        /\ latest[i].score =
              RMin(RAdd(RMul(R(TermsIn(data.title.s), 1), R(15, 100)),
                        suspiciousness(0,
                            priceDeviation(data.price, medianPrice(categoryRange(data.category))),
                            perfectRatingLowReviews(data), zeroReviews(data),
                            genericSeller(LowerOrEmpty(data.seller)), imageCount(data))),
                   One)

\* C22 witness: a title that repeats one term three times, in three cases,
\* has been analysed, and the words entry of its explanation is 0.15.
C22_Witness ==
    /\ data.title.s = T_FreeFree
    /\ latest # <<>>
    /\ \E j \in 1..Len(latest[1].explanation) :
          latest[1].explanation[j] = Entry("suspicious_words_in_title", R(15, 100))

ReportedFeatures ==
    {"price_deviation_from_median", "suspicious_words_in_title",
     "perfect_rating_low_reviews", "no_images", "generic_seller_name"}

\* C23: whenever review_count is 0 the explanation holds an entry for the
\* zero-reviews signal, an entry that is none of the other five features.
C23_ZeroReviewsReported ==
    \A i \in 1..Len(latest) :
        zeroReviews(data) =>
            \E j \in 1..Len(latest[i].explanation) :
                latest[i].explanation[j].feature \notin ReportedFeatures

\* C24: the price entry of the explanation, when there is one, equals
\* min(deviation * 0.2, 0.2) and so is at most 0.2.
C24_PriceEntryCapped ==
    \A i \in 1..Len(latest) :
        \A j \in 1..Len(latest[i].explanation) :
            latest[i].explanation[j].feature = "price_deviation_from_median" =>
                /\ latest[i].explanation[j].contribution =
                      RMin(RMul(priceDeviation(data.price,
                                    medianPrice(categoryRange(data.category))), R(2, 10)),
                           R(2, 10))
                /\ RLeq(latest[i].explanation[j].contribution, R(2, 10))

\* C25: a listing whose images field is absent, null or not an array gets
\* the result of the listing with an empty array (no_images 0.1, here the
\* whole score), a listing with one or more images gets no image
\* contribution (here the score 0), and neither call throws.
C25_MissingImagesAreNone ==
    \A i \in 1..Len(latest) :
        data \in ImageListings =>
            /\ ~latest[i].threw
            /\ IF data.images.k = "array" /\ data.images.n > 0
               THEN latest[i].score = Zero /\ latest[i].explanation = <<>>
               ELSE /\ latest[i].score = R(1, 10)
                    /\ latest[i].explanation = <<Entry("no_images", R(1, 10))>>

\* C25 witness: a listing whose images field is a string has been scored with
\* the no_images contribution.
C25_Witness ==
    /\ data \in ImageListings
    /\ data.images.k = "string"
    /\ latest # <<>>
    /\ latest[1].score = R(1, 10)

\* C28: a listing whose title holds no vocabulary term is not labelled
\* high_risk.
C28_NoTermsNotHighRisk ==
    \A i \in 1..Len(latest) :
        wordMatches(LowerOrEmpty(data.title)) = 0 => latest[i].label # "high_risk"

\* C28 for the categories that are not inherited member names: without a
\* vocabulary term the score is at most 0.65.
C28_NoTermsNotHighRiskOwnCategory ==
    \A i \in 1..Len(latest) :
        (wordMatches(LowerOrEmpty(data.title)) = 0 /\ data.category \notin PrototypeKeys) =>
            (latest[i].label # "high_risk" /\ RLeq(latest[i].score, R(65, 100)))

-----------------------------------------------------------------------------
\* Where the body of a 200 response comes from (Spec)

FailedOutcomes ==
    {"aborted", "non2xx", "failed", "2xx_unparsable", "2xx_body_failed"}

\* C27: the body of a 200 response is the parsed body of a 2xx reply of the
\* backend, whatever it holds, or a result of the engine tagged "v0.1-mock";
\* the engine has run only after the one remote attempt failed, and not at
\* all when the reply was 2xx with a body that parsed.
C27_TwoSources ==
    \A r \in Reqs :
        /\ resp[r].status = 200 =>
              \/ /\ resp[r] \in {remoteResponse(json) : json \in RemoteJson}
                 /\ backend[r] = "2xx_parsed"
              \/ /\ resp[r].source = "mock"
                 /\ resp[r].result.model_version = HeuristicTag
                 /\ backend[r] \in FailedOutcomes
                 /\ mockRuns[r] = 1
        /\ mockRuns[r] > 0 => (fetches[r] = 1 /\ backend[r] \in FailedOutcomes)
        /\ backend[r] = "2xx_parsed" => mockRuns[r] = 0

\* C27 witness: the backend answered 2xx with a body that did not parse, and
\* the 200 response carries the engine's result.
C27_Witness ==
    \E r \in Reqs :
        /\ backend[r] = "2xx_unparsable"
        /\ resp[r].status = 200
        /\ resp[r].source = "mock"

-----------------------------------------------------------------------------
\* ExplanationPanel: the rows it renders for the explanations it is given

UpperMap ==
    [ch \in {Lower[i] : i \in 1..26} |-> Upper[CHOOSE i \in 1..26 : Lower[i] = ch]]

\* String.prototype.toUpperCase of one character
UpperChar(ch) == IF ch \in DOMAIN UpperMap THEN UpperMap[ch] ELSE ch

\* The characters of the feature identifiers.
featureChars(feature) ==
    CASE feature = "price_deviation_from_median" ->
            <<"p","r","i","c","e","_","d","e","v","i","a","t","i","o","n","_",
              "f","r","o","m","_","m","e","d","i","a","n">>
      [] feature = "suspicious_words_in_title" ->
            <<"s","u","s","p","i","c","i","o","u","s","_","w","o","r","d","s","_",
              "i","n","_","t","i","t","l","e">>
      [] feature = "perfect_rating_low_reviews" ->
            <<"p","e","r","f","e","c","t","_","r","a","t","i","n","g","_",
              "l","o","w","_","r","e","v","i","e","w","s">>
      [] feature = "no_images" -> <<"n","o","_","i","m","a","g","e","s">>
      [] feature = "generic_seller_name" ->
            <<"g","e","n","e","r","i","c","_","s","e","l","l","e","r","_",
              "n","a","m","e">>
      [] OTHER -> <<>>

\* feature.split("_").map(capitalise).join(" "): every "_" becomes a space
\* and the first character of every word is upper-cased.
formatFeatureName(chars) ==
    [i \in 1..Len(chars) |->
        IF chars[i] = "_" THEN " "
        ELSE IF i = 1 \/ chars[i - 1] = "_" THEN UpperChar(chars[i])
        ELSE chars[i]]

RECURSIVE reduceSum(_)
\* explanations.reduce((sum, e) => sum + e.contribution, 0)
reduceSum(exps) ==
    IF exps = <<>> THEN R(0, 1)
    ELSE RAdd(reduceSum(SubSeq(exps, 1, Len(exps) - 1)), exps[Len(exps)].contribution)

\* sum || 1: 0 and NaN are falsy.
orOne(sum) == IF sum.nan \/ sum.n = 0 THEN R(1, 1) ELSE sum

totalContribution(exps) == orOne(reduceSum(exps))

\* x.toFixed(1) for x >= 0, as the digits before and after the point: the
\* multiple of 0.1 nearest to x, the larger one of two that are equally near.
toFixed1(x) ==
    [int |-> ((20 * x.n + x.d) \div (2 * x.d)) \div 10,
     frac |-> ((20 * x.n + x.d) \div (2 * x.d)) % 10]

\* (exp.contribution / (totalContribution / explanations.length)) * 100
barWidth(contribution, total, count) ==
    RMul(RDiv(contribution, RDiv(total, R(count, 1))), R(100, 1))

\* A row whose Impact shows the share of the mean in place of the
\* contribution.
rowNormalised(exp, idx, total, count) ==
    [number |-> idx + 1,
     name |-> formatFeatureName(featureChars(exp.feature)),
     impact |-> toFixed1(barWidth(exp.contribution, total, count)),
     width |-> barWidth(exp.contribution, total, count)]

\* One element of explanations.map: the number and name of the feature, the
\* Impact text and the width of the bar, both in percent.
row(exp, idx, total, count) ==
    [number |-> idx + 1,
     name |-> formatFeatureName(featureChars(exp.feature)),
     impact |-> toFixed1(RMul(exp.contribution, R(100, 1))),
     width |-> barWidth(exp.contribution, total, count)]

ExplanationPanel(exps) ==
    IF Len(exps) = 0
    THEN [shown |-> TRUE, none |-> TRUE, rows |-> <<>>]
    ELSE [shown |-> TRUE, none |-> FALSE,
          rows |-> [i \in 1..Len(exps) |->
                      row(exps[i], i - 1, totalContribution(exps), Len(exps))]]

\* Price deviations of the explanations given to the panel: none, 99.99/1100
\* and 2.
PanelDeviations == {R(0, 1), R(9999, 110000), R(2, 1)}
PanelWordMatches == {0, 1, 2, 8}

\* The explanations the panel is given: those the engine can return, and two
\* lists of a remote reply that hold a contribution of 0.
PanelInputs ==
    {explanationOf(explanationEntries(pd, wm, prl, ic, gs)) :
        pd \in PanelDeviations, wm \in PanelWordMatches, prl \in BOOLEAN,
        ic \in {0, 1}, gs \in BOOLEAN}
    \cup {<<[feature |-> "no_images", contribution |-> R(0, 1)]>>,
          <<[feature |-> "no_images", contribution |-> R(1, 10)],
            [feature |-> "generic_seller_name", contribution |-> R(0, 1)]>>}

InitPanel ==
    /\ explanations \in PanelInputs
    /\ rendered = NotRendered
    /\ EngineIdle /\ RouteIdle /\ AnalyzeIdle /\ MonitorIdle

\* The component function runs with the prop explanations.
RenderPanel ==
    /\ ~rendered.shown
    /\ rendered' = ExplanationPanel(explanations)
    /\ UNCHANGED <<explanations, analyzeVars, monitorVars, engineVars, now, routeVars>>

NextPanel == RenderPanel

SpecPanel == InitPanel /\ [][NextPanel]_vars

\* C26: the panel renders one row per explanation it is given; the Impact of
\* a row is the contribution of its explanation, in percent to one decimal,
\* not the normalised value; for positive contributions the divisor
\* total / count is positive and the bar is contribution / (total / count);
\* the explanations themselves are as they were given.
C26_RawContributionShown ==
    rendered.shown =>
        /\ explanations \in PanelInputs
        /\ rendered.none <=> explanations = <<>>
        /\ Len(rendered.rows) = Len(explanations)
        /\ \A i \in 1..Len(explanations) :
              /\ rendered.rows[i].impact.frac \in 0..9
              /\ 2 * Abs((10 * rendered.rows[i].impact.int + rendered.rows[i].impact.frac)
                            * explanations[i].contribution.d
                          - 1000 * explanations[i].contribution.n)
                    <= explanations[i].contribution.d
        /\ (explanations # <<>>
              /\ \A i \in 1..Len(explanations) : RLt(Zero, explanations[i].contribution)) =>
              /\ RLt(Zero, RDiv(SumOfContributions(explanations), R(Len(explanations), 1)))
              /\ \A i \in 1..Len(explanations) :
                    RMul(rendered.rows[i].width, SumOfContributions(explanations)) =
                        RMul(RMul(explanations[i].contribution, R(100, 1)),
                             R(Len(explanations), 1))

\* C26 witness: a panel with several rows of different contributions, one of
\* them with a bar wider than 100 percent, has been rendered.
C26_Witness ==
    /\ rendered.shown
    /\ Len(rendered.rows) >= 3
    /\ \E i \in 1..Len(rendered.rows) : RLt(R(100, 1), rendered.rows[i].width)
    /\ \E i \in 1..Len(rendered.rows) : RLt(rendered.rows[i].width, R(100, 1))

-----------------------------------------------------------------------------
\* AnalyzePage: the form, handleSubmit and the states result, loading, error

\* Texts typed into the fields that handleSubmit converts.
FormPrices == {<<>>, <<"1","1","0","0">>, <<"a","b","c">>}
FormRatings == {<<>>, <<"5">>}
FormReviewCounts == {<<>>, <<"3">>}
FormImages == {<<>>, <<"a","\n","\n","b">>}

FormValues(name) ==
    CASE name = "price" -> FormPrices
      [] name = "rating" -> FormRatings
      [] name = "review_count" -> FormReviewCounts
      [] OTHER -> FormImages

RECURSIVE leadingDigits(_)
\* The longest prefix of s made of decimal digits.
leadingDigits(s) ==
    IF s = <<>> \/ ~IsDigit(s[1]) THEN <<>> ELSE <<s[1]>> \o leadingDigits(Tail(s))

\* Number.parseFloat and Number.parseInt of a text without sign, point or
\* blanks: the number its leading digits spell, NaN when it has none.
parseNumber(s) ==
    IF leadingDigits(s) = <<>> THEN NaN ELSE R(DecimalValue(leadingDigits(s)), 1)

\* formData.images ? formData.images.split("\n").filter(Boolean) : [], as the
\* number of lines that are not empty.
imageLines(s) ==
    Cardinality({i \in 1..Len(s) : s[i] # "\n" /\ (i = 1 \/ s[i - 1] = "\n")})

\* The payload of handleSubmit (the fields that are converted).
payloadOf(form) ==
    [price |-> parseNumber(form.price), rating |-> parseNumber(form.rating),
     review_count |-> parseNumber(form.review_count), images |-> imageLines(form.images)]

\* What response.json() can yield for a response that is ok: an analysis, or
\* the JSON value null.
AnalysisBody(score) == [k |-> "object", s |-> <<>>, n |-> score]
ResponseBodies == {AnalysisBody(12), AnalysisBody(87), JsNull}

\* Messages of the errors fetch and response.json() throw; one is empty.
ThrownMessages == {JsStr(<<"Failed to fetch">>), JsStr(<<"Unexpected token">>), JsStr(<<>>)}

\* (err as Error).message || "An error occurred"
errorText(message) ==
    IF Truthy(message) THEN message ELSE JsStr(<<"An error occurred">>)

\* handleChange: one field of the form is replaced.
HandleChange ==
    /\ \E name \in {"price", "rating", "review_count", "images"} :
          \E value \in FormValues(name) :
              /\ formData[name] # value
              /\ formData' = [formData EXCEPT ![name] = value]
    /\ UNCHANGED <<loading, result, error, request, panelVars, monitorVars,
                   engineVars, now, routeVars>>

\* handleSubmit up to its await: the submit button is disabled while loading.
Submit ==
    /\ ~loading
    /\ loading' = TRUE
    /\ error' = JsNull
    /\ result' = JsNull
    /\ request' = [state |-> "pending", payload |-> payloadOf(formData)]
    /\ UNCHANGED <<formData, panelVars, monitorVars, engineVars, now, routeVars>>

\* The response is ok and its body parses: setResult(data), then finally.
ResponseOk ==
    /\ request.state = "pending"
    /\ \E d \in ResponseBodies : result' = d
    /\ loading' = FALSE
    /\ request' = [request EXCEPT !.state = "settled"]
    /\ UNCHANGED <<formData, error, panelVars, monitorVars, engineVars, now, routeVars>>

\* The response is not ok: the throw of line 62 is caught, then finally.
ResponseNotOk ==
    /\ request.state = "pending"
    /\ error' = errorText(JsStr(<<"Analysis failed">>))
    /\ loading' = FALSE
    /\ request' = [request EXCEPT !.state = "settled"]
    /\ UNCHANGED <<formData, result, panelVars, monitorVars, engineVars, now, routeVars>>

\* fetch or response.json() throws: the error is caught, then finally.
RequestThrows ==
    /\ request.state = "pending"
    /\ \E message \in ThrownMessages : error' = errorText(message)
    /\ loading' = FALSE
    /\ request' = [request EXCEPT !.state = "settled"]
    /\ UNCHANGED <<formData, result, panelVars, monitorVars, engineVars, now, routeVars>>

InitAnalyze == AnalyzeIdle /\ PanelIdle /\ MonitorIdle /\ EngineIdle /\ RouteIdle

NextAnalyze ==
    \/ HandleChange
    \/ Submit
    \/ ResponseOk
    \/ ResponseNotOk
    \/ RequestThrows

SpecAnalyze == InitAnalyze /\ [][NextAnalyze]_vars

\* C29: while a submission is pending loading is true and result and error
\* are null; when it has settled loading is false and exactly one of result
\* and error is not null; the two are never both not null.
C29_ExactlyOneWhenSettled ==
    /\ loading <=> request.state = "pending"
    /\ loading => (result = JsNull /\ error = JsNull)
    /\ request.state = "settled" => ((result # JsNull) # (error # JsNull))
    /\ ~(result # JsNull /\ error # JsNull)

\* C29 without the case of a response that is ok with the body null: result
\* and error are never both not null, and when the submission has settled at
\* most one of them is not null.
C29_NeverBoth ==
    /\ loading <=> request.state = "pending"
    /\ loading => (result = JsNull /\ error = JsNull)
    /\ ~(result # JsNull /\ error # JsNull)

-----------------------------------------------------------------------------
\* MonitorPage: the interval that feeds the list of listings

\* The number of rows the list keeps: slice(0, 20).
MaxRows == 20
\* Interval callbacks followed, over all mounts of the page.
MaxTicks == 23

\* The row a callback creates.  Its random fields stand behind the number of
\* the callback that made it.
newListing(n) == [id |-> n]

\* A list that is never cut.
prependUncapped(item, prior) == <<item>> \o prior

\* [newListing, ...prev].slice(0, 20)
prepend(item, prior) ==
    SubSeq(<<item>> \o prior, 1,
           IF Len(prior) + 1 < MaxRows THEN Len(prior) + 1 ELSE MaxRows)

\* The page mounts: the list is empty, the effect starts the interval and
\* sets connected.
MountMonitor ==
    /\ ~mounted
    /\ mounted' = TRUE
    /\ listings' = <<>>
    /\ interval' = "active"
    /\ connected' = TRUE
    /\ UNCHANGED <<nextId, panelVars, analyzeVars, engineVars, now, routeVars>>

\* The callback of setInterval runs.
IntervalTick ==
    /\ interval = "active"
    /\ nextId <= MaxTicks
    /\ listings' = prepend(newListing(nextId), listings)
    /\ nextId' = nextId + 1
    /\ UNCHANGED <<connected, mounted, interval, panelVars, analyzeVars,
                   engineVars, now, routeVars>>

\* The page unmounts: the cleanup of the effect clears the interval.
UnmountMonitor ==
    /\ mounted
    /\ mounted' = FALSE
    /\ interval' = "cleared"
    /\ UNCHANGED <<listings, connected, nextId, panelVars, analyzeVars,
                   engineVars, now, routeVars>>

InitMonitor == MonitorIdle /\ PanelIdle /\ AnalyzeIdle /\ EngineIdle /\ RouteIdle

NextMonitor == MountMonitor \/ IntervalTick \/ UnmountMonitor

SpecMonitor == InitMonitor /\ [][NextMonitor]_vars

\* The list holds at most 20 rows, newest first with no row missing between
\* the newest and the oldest one held, and no interval runs for a page that
\* is not mounted.
MonitorListBounded ==
    /\ Len(listings) <= MaxRows
    /\ \A i \in 1..(Len(listings) - 1) : listings[i].id = listings[i + 1].id + 1
    /\ ~mounted => interval # "active"

\* A callback runs only while the page is mounted; it puts its one new row
\* first, keeps the rows held in their order and drops the last one only when
\* 20 were held.
MonitorTickPrepends ==
    nextId' # nextId =>
        /\ mounted /\ mounted'
        /\ listings' # <<>>
        /\ listings'[1] = newListing(nextId)
        /\ Tail(listings') =
              IF Len(listings) = MaxRows THEN SubSeq(listings, 1, MaxRows - 1) ELSE listings

\* C30: after any number of ticks the list holds at most 20 rows, newest
\* first; each tick prepends one row and drops the oldest when 20 are held,
\* the others keeping their order; ticks stop when the page is unmounted.
C30_NewestTwentyKept == []MonitorListBounded /\ [][MonitorTickPrepends]_vars

\* C30 witness: 20 rows are held and the oldest rows have been dropped.
C30_Witness ==
    /\ mounted
    /\ Len(listings) = MaxRows
    /\ listings[MaxRows].id > listings[1].id - MaxRows
    /\ listings[1].id >= MaxRows + 2

====
